---- MODULE Spec2Model ----
(***************************************************************************)
(* Model of src/apih.py: the route-selection service.                      *)
(*                                                                         *)
(* Process-wide state: startlt, startln, endlt, endln (pending origin and  *)
(* destination) and pari (cached average risk of the last winning route).  *)
(* Handlers: get_cords (POST /get-cords), find_safest_route                *)
(* (GET /find-safest-route), calculate_risk (GET /risk).  All three are    *)
(* `async def` coroutines run by one asyncio event loop.                   *)
(*                                                                         *)
(* Numbers.  A signal score s in the code is a float; here it is the       *)
(* integer s * SCALE (SCALE = 3000 makes k/50, k/30, k/10 and k/1000 all   *)
(* integers).  A point risk is in units of 1/(100*SCALE); average_risk and *)
(* pari are in thousandths (the code rounds them to 3 decimals).           *)
(* Arithmetic is exact rational arithmetic, round() is round-half-even.    *)
(***************************************************************************)
EXTENDS Integers, Sequences, FiniteSets, TLC

\* ------------------------------------------------------------------ bounds
MaxReq == 2          \* request slots: requests in flight at the same time
MaxRoutes == 2       \* alternative routes in one routing response
MaxEvents == 2       \* disaster events in one feed payload
MaxSelRoutes == 3    \* alternative routes in one input of the selection

\* ------------------------------------------------------- program constants
NearKm == 300        \* get_incident_density: distance < 300
SevDiv == 10         \* severity / 10
WindLimit == 40      \* wind > 40
RoadDiv == 50        \* road_count / 50
PoiDiv == 30         \* poi_count / 30
HalfDay == 720       \* distance / 720
Stride == 20         \* full_coords[::20]
SCALE == 2 * RoadDiv * PoiDiv   \* fixed-point unit of a score: 1.0 = 3000
RainCodes == {61, 63, 65}
ThunderCodes == {95, 96, 99}

\* ----------------------------------------------------------- arithmetic
Min(a, b) == IF a <= b THEN a ELSE b

Abs(a) == IF a < 0 THEN -a ELSE a

\* a Python list built element by element: the sequence with the elements
\* of f, evaluated once
List(f) == << >> \o f

\* round(n / d) for d > 0, ties to the even neighbour (Python's round)
RoundDiv(n, d) ==
    LET q == n \div d
        r == n % d
    IN  IF 2 * r < d THEN q
        ELSE IF 2 * r > d THEN q + 1
        ELSE IF q % 2 = 0 THEN q ELSE q + 1

\* ------------------------------------------------------- signal sources
\* Payloads are what the upstream returned: ok = FALSE is any exception in
\* the try block (network error, non-JSON body, missing mandatory key,
\* value of the wrong type).

\* get_incident_density.  An event is [dist, hasSev, sev]: dist is the
\* haversine distance in km from the query point, hasSev whether
\* properties.severitydata.severity is present (default 0).
RECURSIVE IncidentSum(_)
IncidentSum(events) ==
    IF events = << >> THEN 0
    ELSE LET ev == Head(events)
             severity == IF ev.hasSev THEN ev.sev ELSE 0
             add == IF ev.dist < NearKm
                    THEN Min((severity * SCALE) \div SevDiv, SCALE)
                    ELSE 0
         IN  add + IncidentSum(Tail(events))

get_incident_density(payload) ==
    IF payload.ok THEN Min(IncidentSum(payload.events), SCALE) ELSE 0

\* get_weather_severity: returns the score and the daily sunrise/sunset
\* (minutes of day); on failure 0 and sunrise = sunset = now.
WeatherScore(wind, code) ==
    Min( (IF wind > WindLimit THEN (5 * SCALE) \div 10 ELSE 0)
       + (IF code \in RainCodes THEN (3 * SCALE) \div 10 ELSE 0)
       + (IF code \in ThunderCodes THEN (7 * SCALE) \div 10 ELSE 0), SCALE)

get_weather_severity(payload, now) ==
    IF payload.ok
    THEN [score |-> WeatherScore(payload.wind, payload.code),
          daily |-> [ok |-> payload.dailyOk,
                     sunrise |-> payload.sunrise, sunset |-> payload.sunset]]
    ELSE [score |-> 0, daily |-> [ok |-> TRUE, sunrise |-> now, sunset |-> now]]

\* get_road_isolation: 1 - min(road_count / 50, 1); 0.5 on failure.
\* hasCount = FALSE: elements/tags/ways absent, the .get defaults give 0.
get_road_isolation(payload) ==
    IF payload.ok
    THEN LET road_count == IF payload.hasCount THEN payload.count ELSE 0
         IN  SCALE - Min((road_count * SCALE) \div RoadDiv, SCALE)
    ELSE SCALE \div 2

\* get_poi_inverse: 1 - min(poi_count / 30, 1); 0.5 on failure.
get_poi_inverse(payload) ==
    IF payload.ok
    THEN LET poi_count == IF payload.hasCount THEN payload.count ELSE 0
         IN  SCALE - Min((poi_count * SCALE) \div PoiDiv, SCALE)
    ELSE SCALE \div 2

\* get_night_factor: round(min(|now_m - noon_m| / 720, 1), 3), 0.5 when the
\* timestamps do not parse.  noon_m = (sunrise_m + sunset_m) / 2 may be a
\* half minute, so the distance is kept doubled.
get_night_factor(daily_data, now) ==
    IF daily_data.ok
    THEN LET distance2 == Abs(2 * now - (daily_data.sunrise + daily_data.sunset))
             thousandths == IF distance2 >= 2 * HalfDay THEN 1000
                            ELSE RoundDiv(1000 * distance2, 2 * HalfDay)
         IN  (thousandths * SCALE) \div 1000
    ELSE SCALE \div 2

\* ------------------------------------------------------------ the map
\* A coordinate on a route is a place.  The road and amenity counts around
\* a place are what the Overpass queries of get_road_isolation and
\* get_poi_inverse return for it when the provider answers.
RoadCountAt(p) ==
    CASE p = "urban" -> 50 [] p = "town" -> 25 [] p = "rural" -> 5
      [] p = "village" -> 26 [] OTHER -> 0

PoiCountAt(p) ==
    CASE p = "urban" -> 15 [] p = "town" -> 15 [] p = "rural" -> 15
      [] p = "village" -> 14 [] OTHER -> 0

\* The encoded polylines the routing provider can return, and what
\* polyline.decode gives for each: the ordered coordinates of the route.
\* Line(n, s, b) has s at the indices the sampling keeps and b elsewhere.
Line(n, sampled, between) ==
    [k \in 1..n |-> IF (k - 1) % Stride = 0 THEN sampled ELSE between]

Urban21 == Line(Stride + 1, "urban", "urban")

Rural21 == Line(Stride + 1, "rural", "rural")

UrbanVia21 == Line(Stride + 1, "urban", "town")

Town25 == Line(Stride + 5, "town", "urban")

Town41 == Line(2 * Stride + 1, "town", "rural")

Village41 == [Town41 EXCEPT ![1] = "village"]

Decode(points) ==
    CASE points = "urban21" -> Urban21
      [] points = "rural21" -> Rural21
      [] points = "urbanVia21" -> UrbanVia21
      [] points = "town25" -> Town25
      [] points = "town41" -> Town41
      [] points = "village41" -> Village41
      [] points = "wild1" -> << "wild" >>
      [] OTHER -> << >>

\* full_coords[::20]: the points at 0-based indices 0, 20, 40, ...
Sample(full_coords) ==
    List([j \in 1..((Len(full_coords) + Stride - 1) \div Stride) |->
            full_coords[(j - 1) * Stride + 1]])

\* ------------------------------------------------------ route scoring
\* 0.35*incident + 0.20*road + 0.10*weather + 0.15*poi + 0.10*night,
\* in units of 1/(100*SCALE)
PointRiskNoRoad(incident_density, road_iso, weather_severity, poi_inv, night_factor) ==
    35 * incident_density + 10 * weather_severity + 15 * poi_inv + 10 * night_factor

PointRisk(incident_density, road_iso, weather_severity, poi_inv, night_factor) ==
    35 * incident_density + 20 * road_iso + 10 * weather_severity
      + 15 * poi_inv + 10 * night_factor

RECURSIVE SumSeq(_)
SumSeq(s) == IF s = << >> THEN 0 ELSE Head(s) + SumSeq(Tail(s))

\* round(sum(route_risks) / len(route_risks), 3) in thousandths
AverageRisk(route_risks) ==
    RoundDiv(SumSeq(route_risks) * 1000, Len(route_risks) * 100 * SCALE)

\* min(routes_analysis, key = average_risk): the first item no later item
\* is strictly smaller than
RECURSIVE MinFromLast(_, _)
MinFromLast(best, rest) ==
    IF rest = << >> THEN best
    ELSE MinFromLast(IF Head(rest).average_risk <= best.average_risk
                     THEN Head(rest) ELSE best, Tail(rest))

RECURSIVE MinFrom(_, _)
MinFrom(best, rest) ==
    IF rest = << >> THEN best
    ELSE MinFrom(IF Head(rest).average_risk < best.average_risk
                 THEN Head(rest) ELSE best, Tail(rest))

SafestIsLast(routes_analysis) == routes_analysis[Len(routes_analysis)]

Safest(routes_analysis) == MinFrom(Head(routes_analysis), Tail(routes_analysis))

\* -------------------------------------------------- find_safest_route
NotSetMsg == "Coordinates not set. Please call /get-cords first."

NoRoutesMsg == "No routes found"

\* detail of a response.  wrap = 0: the message itself; wrap = 400: the
\* text str(e) of an HTTPException(400, msg) caught by `except Exception`.
Detail(wrap, msg) == [wrap |-> wrap, msg |-> msg]

CoordsUnsetNever(lt, ln) == FALSE

\* the check of line 130
CoordsUnset(lt, ln) == lt = 0 \/ ln = 0

\* Which calls of a provider fail during a request: none, all, or the first
\* one only.  Call (i, j) is the one for sampled point j of route i.
CallFails(mode, i, j) == mode = "all" \/ (mode = "first" /\ i = 1 /\ j = 1)

\* Scores of the sampled points of route i: the provider's answer for the
\* place, or the failure default when the call (i, j) fails.
RoadPayload(p, fails) == [ok |-> ~fails, hasCount |-> TRUE, count |-> RoadCountAt(p)]

PoiPayload(p, fails) == [ok |-> ~fails, hasCount |-> TRUE, count |-> PoiCountAt(p)]

RoadScores(sampled_points, i, env) ==
    List([j \in 1..Len(sampled_points) |->
            get_road_isolation(RoadPayload(sampled_points[j],
                                           CallFails(env.roadFail, i, j)))])

PoiScores(sampled_points, i, env) ==
    List([j \in 1..Len(sampled_points) |->
            get_poi_inverse(PoiPayload(sampled_points[j],
                                       CallFails(env.poiFail, i, j)))])

\* What the handler does once the check of line 130 has passed, as a
\* function of the globals it reads and of what the upstream providers
\* answer during the request (env).  Result: the response (status, detail,
\* geometry), the value assigned to pari on success, and a record of the
\* upstream traffic (sent: the coordinates of the routing query; called,
\* failed: the providers called and those whose call raised).
Abort(error, sent, called, failed, gh) ==
    [status |-> error.status, detail |-> error.detail, hasGeometry |-> FALSE,
     geometry |-> << >>, risk |-> 0, sent |-> sent, called |-> called,
     failed |-> failed, gh |-> gh, analysis |-> << >>, scored |-> << >>]

NoGh == [ok |-> FALSE, hasPaths |-> FALSE, hasMessage |-> FALSE,
         message |-> "", paths |-> << >>]

\* raise HTTPException(status_code, detail) outside the try block
HTTPException(status_code, detail) == [status |-> status_code, detail |-> detail]

OnExceptionClient(e) == HTTPException(400, e)

\* lines 192-194: whatever is raised inside the try block, the
\* HTTPException of line 155 included, is caught and becomes a 500 whose
\* detail is str(e)
OnException(e) == HTTPException(500, e)

NotSetOutcome ==
    Abort(HTTPException(400, Detail(0, NotSetMsg)), << >>, {}, {}, NoGh)

SelectOutcome(lt, ln, elt, eln, env) ==
    LET gh == env.gh
        paths == gh.paths
        sent == <<lt, ln, elt, eln>>
    IN
    IF ~gh.ok
    THEN Abort(OnException(Detail(0, "routing request failed")), sent,
               {"routing"}, {"routing"}, gh)
    ELSE IF ~gh.hasPaths
    THEN Abort(OnException(Detail(400, IF gh.hasMessage THEN gh.message
                                              ELSE NoRoutesMsg)),
               sent, {"routing"}, {}, gh)
    ELSE
    LET w == get_weather_severity(env.weather, env.now)
        weather_severity == w.score
        daily_data == w.daily
        incident_density == get_incident_density(env.incident)
        night_factor == get_night_factor(daily_data, env.now)
        areaFailed == (IF env.weather.ok THEN {} ELSE {"weather"})
                        \cup (IF env.incident.ok THEN {} ELSE {"incident"})
        \* the loop body of lines 164-177 for path i
        scoring == List(
            [i \in 1..Len(paths) |->
                LET full_coords == Decode(paths[i].points)
                    sampled_points == Sample(full_coords)
                    road == RoadScores(sampled_points, i, env)
                    poi == PoiScores(sampled_points, i, env)
                IN  [full_coords |-> full_coords, samples |-> Len(sampled_points),
                     road |-> road, poi |-> poi,
                     route_risks |-> List(
                        [j \in 1..Len(sampled_points) |->
                            PointRisk(incident_density, road[j], weather_severity,
                                      poi[j], night_factor)])]])
        \* the first route whose sample is empty stops the loop (division by zero)
        empties == {i \in 1..Len(paths) : scoring[i].samples = 0}
        firstEmpty == IF empties = {} THEN 0
                      ELSE CHOOSE i \in empties : \A k \in empties : i <= k
        scoredUpTo == IF firstEmpty = 0 THEN Len(paths) ELSE firstEmpty - 1
        pointCalls == UNION {{<<i, j>> : j \in 1..scoring[i].samples} :
                                i \in 1..scoredUpTo}
        called == {"routing", "weather", "incident"}
                    \cup (IF pointCalls = {} THEN {} ELSE {"road", "poi"})
        failed == areaFailed
                    \cup (IF \E c \in pointCalls : CallFails(env.roadFail, c[1], c[2])
                          THEN {"road"} ELSE {})
                    \cup (IF \E c \in pointCalls : CallFails(env.poiFail, c[1], c[2])
                          THEN {"poi"} ELSE {})
        routes_analysis == List(
            [i \in 1..Len(paths) |->
                [route_id |-> i, average_risk |-> AverageRisk(scoring[i].route_risks),
                 geometry |-> scoring[i].full_coords]])
        safest == Safest(routes_analysis)
    IN
    IF firstEmpty # 0
    THEN Abort(OnException(Detail(0, "division by zero")), sent, called, failed, gh)
    ELSE IF paths = << >>
    THEN Abort(OnException(Detail(0, "min() arg is an empty sequence")),
               sent, called, failed, gh)
    ELSE [status |-> 200, detail |-> Detail(0, ""), hasGeometry |-> TRUE,
          geometry |-> safest.geometry, risk |-> safest.average_risk,
          sent |-> sent, called |-> called, failed |-> failed, gh |-> gh,
          analysis |-> routes_analysis,
          scored |-> [i \in 1..Len(paths) |->
                        [road |-> scoring[i].road, poi |-> scoring[i].poi]]]

\* the handler from its first line
FindOutcome(lt, ln, elt, eln, env) ==
    IF CoordsUnset(lt, ln) THEN NotSetOutcome
    ELSE SelectOutcome(lt, ln, elt, eln, env)

PariAlways(outcome, old) == outcome.risk

\* `global pari; pari = safest["average_risk"]` is reached on success only
PariAfterFind(outcome, old) ==
    IF outcome.status = 200 THEN outcome.risk ELSE old

\* calculate_risk: return pari
calculate_risk(p) == p

\* ------------------------------------------------------ the environment
\* Arguments of the get-cords calls.
CordInputs ==
    {<<1, 1, 2, 2>>, <<2, 2, 1, 1>>, <<0, 1, 1, 1>>, <<1, 0, 2, 2>>, <<0, 0, 1, 1>>}

\* Answers of the routing provider.
PathLists(polylines, n) ==
    UNION {[1..k -> [points : polylines]] : k \in 0..n}

GhAnswers(polylines, n) ==
    {NoGh,
     [ok |-> TRUE, hasPaths |-> FALSE, hasMessage |-> FALSE, message |-> "", paths |-> << >>],
     [ok |-> TRUE, hasPaths |-> FALSE, hasMessage |-> TRUE,
      message |-> "Cannot find point 0", paths |-> << >>]}
    \cup {[ok |-> TRUE, hasPaths |-> TRUE, hasMessage |-> FALSE, message |-> "",
           paths |-> ps] : ps \in PathLists(polylines, n)}

\* Weather and incident payloads with the clock (minutes of the UTC day).
WeatherDown == [ok |-> FALSE, wind |-> 0, code |-> 0, dailyOk |-> FALSE,
                sunrise |-> 0, sunset |-> 0]

Weather(wind, code, dailyOk) ==
    [ok |-> TRUE, wind |-> wind, code |-> code, dailyOk |-> dailyOk,
     sunrise |-> 360, sunset |-> 1080]

Event(dist, hasSev, sev) == [dist |-> dist, hasSev |-> hasSev, sev |-> sev]

IncidentDown == [ok |-> FALSE, events |-> << >>]

Incidents(events) == [ok |-> TRUE, events |-> events]

Stormy == [weather |-> Weather(50, 95, TRUE),
           incident |-> Incidents(<<Event(100, TRUE, 5)>>), now |-> 60]

Outage == [weather |-> WeatherDown, incident |-> IncidentDown, now |-> 60]

NoFail == [roadFail |-> "none", poiFail |-> "none"]

RoadDown == [roadFail |-> "all", poiFail |-> "none"]

PoiFlaky == [roadFail |-> "none", poiFail |-> "first"]

Env(gh, area, fail) ==
    [gh |-> gh, weather |-> area.weather, incident |-> area.incident,
     now |-> area.now, roadFail |-> fail.roadFail, poiFail |-> fail.poiFail]

\* what the providers do during one request of the server
ServerCases ==
    {<<Stormy, NoFail>>, <<Outage, NoFail>>, <<Stormy, RoadDown>>, <<Stormy, PoiFlaky>>}

ServerPolylines == {"urban21", "rural21", "empty"}

FindEnvs ==
    {Env(gh, c[1], c[2]) : gh \in GhAnswers(ServerPolylines, MaxRoutes),
                           c \in ServerCases}

\* ------------------------------------------------------------- state
VARIABLES
    startlt, startln, endlt, endln,   \* the pending origin and destination
    pari,                             \* cached average_risk, thousandths
    reqs,        \* request slots: kind, position in the handler, arguments
    running,     \* the slot whose coroutine the event loop is running, or 0
    resp,        \* response of the request that completed last, until the
                 \* loop takes up the next one
    trace,       \* upstream traffic and analysis of that request (a find)
    lastCords,   \* history: arguments of the most recent get-cords call
    cordsEver,   \* history: get-cords has been called
    okRisk,      \* history: least average_risk of the last successful find
    everOk,      \* history: some find has succeeded
    arg, result  \* input and output of the function specifications

vars == <<startlt, startln, endlt, endln, pari, reqs, running, resp, trace,
          lastCords, cordsEver, okRisk, everOk, arg, result>>

Slots == 1..MaxReq

Kinds == {"get_cords", "find", "risk"}

NoArgs == <<0, 0, 0, 0>>

IdleReq == [kind |-> "none", pc |-> "idle", args |-> NoArgs]

NoTrace == Abort(HTTPException(0, Detail(0, "")), << >>, {}, {}, NoGh)

NoResp == [op |-> "none", status |-> 0, detail |-> Detail(0, ""),
           hasGeometry |-> FALSE, geometry |-> << >>, value |-> 0]

Unused == [fn |-> "none"]

\* the module-level assignments of lines 104-112, no request yet
ServerAtRest ==
    /\ startlt = 0 /\ startln = 0 /\ endlt = 0 /\ endln = 0
    /\ pari = 0
    /\ reqs = [i \in Slots |-> IdleReq]
    /\ running = 0
    /\ resp = NoResp
    /\ trace = NoTrace
    /\ lastCords = NoArgs
    /\ cordsEver = FALSE
    /\ okRisk = 0
    /\ everOk = FALSE

Init == ServerAtRest /\ arg = Unused /\ result = Unused

\* ------------------------------------------------------ the event loop
LoopPreempts(r) == TRUE

\* The handlers are coroutines without an await: the loop takes up another
\* request only when no coroutine is running.
LoopFree(r) == r = 0

\* a request arrives and waits for the loop
Arrive(i, kind) ==
    /\ reqs[i].pc = "idle"
    /\ reqs' = [reqs EXCEPT ![i] = [kind |-> kind, pc |-> "ready", args |-> NoArgs]]
    /\ UNCHANGED <<startlt, startln, endlt, endln, pari, running, resp, trace,
                   lastCords, cordsEver, okRisk, everOk, arg, result>>

\* the loop calls the handler of a waiting request with its arguments
Dispatch(i) ==
    /\ LoopFree(running)
    /\ reqs[i].pc = "ready"
    /\ running' = i
    /\ resp' = NoResp
    /\ trace' = NoTrace
    /\ \/ /\ reqs[i].kind = "get_cords"
          /\ \E c \in CordInputs :
                /\ reqs' = [reqs EXCEPT ![i].pc = "gc1", ![i].args = c]
                /\ lastCords' = c
                /\ cordsEver' = TRUE
       \/ /\ reqs[i].kind = "find"
          /\ reqs' = [reqs EXCEPT ![i].pc = "f1"]
          /\ UNCHANGED <<lastCords, cordsEver>>
       \/ /\ reqs[i].kind = "risk"
          /\ reqs' = [reqs EXCEPT ![i].pc = "r1"]
          /\ UNCHANGED <<lastCords, cordsEver>>
    /\ UNCHANGED <<startlt, startln, endlt, endln, pari, okRisk, everOk, arg, result>>

\* the handler of slot i returns or raises: the response goes out
Return(i, response, tr) ==
    /\ reqs' = [reqs EXCEPT ![i] = IdleReq]
    /\ running' = 0
    /\ resp' = response
    /\ trace' = tr

At(i, pc) == running = i /\ reqs[i].pc = pc

\* ----------------------------------------------------------- get_cords
GetCords1(i) ==
    /\ At(i, "gc1")
    /\ startlt' = reqs[i].args[1]
    /\ reqs' = [reqs EXCEPT ![i].pc = "gc2"]
    /\ UNCHANGED <<startln, endlt, endln, pari, running, resp, trace,
                   lastCords, cordsEver, okRisk, everOk, arg, result>>

GetCords2(i) ==
    /\ At(i, "gc2")
    /\ startln' = reqs[i].args[2]
    /\ reqs' = [reqs EXCEPT ![i].pc = "gc3"]
    /\ UNCHANGED <<startlt, endlt, endln, pari, running, resp, trace,
                   lastCords, cordsEver, okRisk, everOk, arg, result>>

GetCords3(i) ==
    /\ At(i, "gc3")
    /\ endlt' = reqs[i].args[3]
    /\ reqs' = [reqs EXCEPT ![i].pc = "gc4"]
    /\ UNCHANGED <<startlt, startln, endln, pari, running, resp, trace,
                   lastCords, cordsEver, okRisk, everOk, arg, result>>

GetCords4(i) ==
    /\ At(i, "gc4")
    /\ endln' = reqs[i].args[4]
    /\ Return(i, [op |-> "get_cords", status |-> 200,
                  detail |-> Detail(0, "Coordinates updated"),
                  hasGeometry |-> FALSE, geometry |-> << >>, value |-> 0], NoTrace)
    /\ UNCHANGED <<startlt, startln, endlt, pari,
                   lastCords, cordsEver, okRisk, everOk, arg, result>>

\* --------------------------------------------------- find_safest_route
FindResponse(o) ==
    [op |-> "find", status |-> o.status, detail |-> o.detail,
     hasGeometry |-> o.hasGeometry, geometry |-> o.geometry, value |-> 0]

\* history: the least average_risk among the candidates
LeastRisk(analysis) ==
    CHOOSE r \in {analysis[k].average_risk : k \in 1..Len(analysis)} :
        \A k \in 1..Len(analysis) : r <= analysis[k].average_risk

\* lines 130-134
FindValidate(i) ==
    /\ At(i, "f1")
    /\ IF CoordsUnset(startlt, startln)
       THEN Return(i, FindResponse(NotSetOutcome), NotSetOutcome)
       ELSE /\ reqs' = [reqs EXCEPT ![i].pc = "f2"]
            /\ UNCHANGED <<running, resp, trace>>
    /\ UNCHANGED <<startlt, startln, endlt, endln, pari,
                   lastCords, cordsEver, okRisk, everOk, arg, result>>

\* lines 136-194
FindSelect(i) ==
    /\ At(i, "f2")
    /\ \E env \in FindEnvs :
          LET o == SelectOutcome(startlt, startln, endlt, endln, env)
          IN  /\ pari' = PariAfterFind(o, pari)
              /\ Return(i, FindResponse(o), o)
              /\ okRisk' = IF o.status = 200 THEN LeastRisk(o.analysis) ELSE okRisk
              /\ everOk' = (everOk \/ o.status = 200)
    /\ UNCHANGED <<startlt, startln, endlt, endln, lastCords, cordsEver, arg, result>>

\* ------------------------------------------------------ calculate_risk
CalculateRisk(i) ==
    /\ At(i, "r1")
    /\ Return(i, [op |-> "risk", status |-> 200, detail |-> Detail(0, ""),
                  hasGeometry |-> FALSE, geometry |-> << >>,
                  value |-> calculate_risk(pari)], NoTrace)
    /\ UNCHANGED <<startlt, startln, endlt, endln, pari,
                   lastCords, cordsEver, okRisk, everOk, arg, result>>

Serve ==
    \E i \in Slots :
        \/ Dispatch(i)
        \/ GetCords1(i) \/ GetCords2(i) \/ GetCords3(i) \/ GetCords4(i)
        \/ FindValidate(i) \/ FindSelect(i)
        \/ CalculateRisk(i)

Next ==
    \/ \E i \in Slots, kind \in Kinds : Arrive(i, kind)
    \/ Serve

Spec == Init /\ [][Next]_vars

\* The loop keeps running the coroutines it has, and clients keep sending
\* requests of every kind.
FairSpec ==
    /\ Spec
    /\ WF_vars(Serve)
    /\ \A kind \in Kinds : SF_vars(\E i \in Slots : Arrive(i, kind))

\* ------------------------------------------------------------ properties
Pending == <<startlt, startln, endlt, endln>>

FindDone == resp.op = "find"

\* C1: a find-safest-route made when get-cords was never called ends with
\* the 400 "coordinates not set" error, returns no geometry and calls
\* neither the routing provider nor any signal provider.
FindBeforeCordsRejected ==
    (FindDone /\ ~cordsEver) =>
        /\ resp.status = 400
        /\ resp.detail = Detail(0, NotSetMsg)
        /\ ~resp.hasGeometry
        /\ trace.called = {}
        /\ trace.sent = << >>

FindBeforeCordsHappens == FindDone /\ ~cordsEver

AllBelow(xs, ys) ==
    \A j \in 1..Len(xs), k \in 1..Len(ys) : xs[j] < ys[k]

SamePoi(scored) ==
    \A a, b \in 1..Len(scored) :
        \A j \in 1..Len(scored[a].poi), k \in 1..Len(scored[b].poi) :
            scored[a].poi[j] = scored[b].poi[k]

LessIsolatedWins(a, b) ==
    /\ FindDone /\ resp.status = 200
    /\ Len(trace.analysis) = 2
    /\ AllBelow(trace.scored[a].road, trace.scored[b].road)
    /\ SamePoi(trace.scored)

\* C2: with exactly two routes, in either order, where every sampled point
\* of A has a strictly lower road isolation than every sampled point of B
\* and all points have the same POI score (incident, weather and night are
\* per request), a successful find returns A's full geometry and pari is
\* A's average risk.
LessIsolatedRouteChosen ==
    \A a, b \in {1, 2} :
        (a # b /\ LessIsolatedWins(a, b)) =>
            /\ resp.geometry = Decode(trace.gh.paths[a].points)
            /\ pari = trace.analysis[a].average_risk

LessIsolatedListedSecond == LessIsolatedWins(2, 1)

NoPathsAnswered == FindDone /\ trace.gh.ok /\ ~trace.gh.hasPaths

\* C4: when validation passes and the routing response has no paths list,
\* the find ends with status 400 and the provider's message (or "No routes
\* found"), never with 500.
NoPathsIsClientError ==
    NoPathsAnswered =>
        /\ resp.status = 400
        /\ resp.detail = Detail(0, IF trace.gh.hasMessage THEN trace.gh.message
                                   ELSE NoRoutesMsg)

\* C5 as claimed: a failure of any upstream call made during the selection
\* (routing, incident, weather, road, POI) ends it with status 500 and no
\* geometry.
AnyUpstreamFailureAborts ==
    (FindDone /\ trace.failed # {}) => (resp.status = 500 /\ ~resp.hasGeometry)

RoutesUsable(gh) ==
    /\ gh.ok /\ gh.hasPaths /\ gh.paths # << >>
    /\ \A k \in 1..Len(gh.paths) : Decode(gh.paths[k].points) # << >>

\* C5 amended: a failed routing fetch ends the selection with status 500,
\* the underlying message and no geometry.  A failed incident, weather,
\* road or POI call does not: the selection succeeds whenever the routing
\* response lists at least one route and every route has a point.
OnlyRoutingFailureAborts ==
    FindDone =>
        /\ "routing" \in trace.failed =>
              /\ resp.status = 500
              /\ resp.detail = Detail(0, "routing request failed")
              /\ ~resp.hasGeometry
        /\ RoutesUsable(trace.gh) => (resp.status = 200 /\ resp.hasGeometry)

SignalFailureAbsorbed ==
    /\ FindDone /\ resp.status = 200
    /\ trace.failed \cap {"weather", "incident", "road", "poi"} # {}

\* C6: after a get-cords whose origin is not (0, 0), origins with one zero
\* component included, a find passes validation: no "coordinates not set"
\* error, and the routing provider is queried.
OriginSetPassesValidation ==
    (FindDone /\ cordsEver /\ (lastCords[1] # 0 \/ lastCords[2] # 0)) =>
        /\ resp.detail # Detail(0, NotSetMsg)
        /\ "routing" \in trace.called

RiskReadDone == resp.op = "risk"

\* C8: the risk read returns the average risk of the winner of the most
\* recent successful find, and 0 when no find has succeeded yet.
RiskReadReturnsLastWinner ==
    RiskReadDone =>
        /\ resp.value = okRisk
        /\ ~everOk => resp.value = 0

RiskReadAfterSuccess == RiskReadDone /\ everOk /\ resp.value # 0

\* a routing query whose origin/destination pair no single get-cords call
\* wrote (every call takes its arguments from CordInputs)
TornSend == trace.sent # << >> /\ trace.sent \notin CordInputs

\* C9 as claimed: with requests in flight together, some find sends the
\* routing provider a torn origin/destination pair.
TornPendingObserved == <>TornSend

\* C9 amended: the handlers do not interleave, and the pair a find sends
\* to the routing provider is the one the most recent get-cords call wrote.
RoutingQueryIsLastCords ==
    (FindDone /\ trace.sent # << >>) =>
        (trace.sent = lastCords /\ ~TornSend)

FindWithCordsInFlight ==
    /\ FindDone /\ trace.sent # << >>
    /\ \E j \in Slots : reqs[j].pc = "ready" /\ reqs[j].kind = "get_cords"

\* a step of the running handler
StepOf(kind) ==
    /\ running # 0
    /\ reqs[running].kind = kind
    /\ reqs'[running] # reqs[running]

\* C10: a find never changes the pending coordinates, which stay those of
\* the most recent get-cords; a find that ends in an error leaves pari
\* unchanged; get-cords and the risk read never change pari.
FrameEffects ==
    [][ /\ StepOf("find") => (Pending' = Pending /\ Pending' = lastCords')
        /\ (StepOf("find") /\ resp'.status # 200) => pari' = pari
        /\ (StepOf("get_cords") \/ StepOf("risk")) => pari' = pari ]_vars

FailedFindKeepsRisk ==
    FindDone /\ resp.status \in {400, 500} /\ pari # 0 /\ Pending = lastCords

\* --------------------------------------------- the selection as a function
\* find_safest_route applied to pending coordinates and provider answers
\* drawn from a richer catalogue: up to MaxSelRoutes routes, routes with one,
\* two and three sampled points, routes whose average risks tie.
Calm == [weather |-> Weather(10, 0, TRUE), incident |-> Incidents(<< >>), now |-> 720]

SelPolylines ==
    {"urban21", "rural21", "urbanVia21", "town25", "town41", "village41",
     "wild1", "empty"}

SelCases == {<<Calm, NoFail>>, <<Stormy, PoiFlaky>>, <<Outage, RoadDown>>}

SelInputs ==
    {[fn |-> "find", cords |-> c, env |-> Env(gh, k[1], k[2])] :
        c \in {<<1, 1, 2, 2>>, <<0, 1, 1, 1>>},
        gh \in GhAnswers(SelPolylines, MaxSelRoutes),
        k \in SelCases}

SelInit == ServerAtRest /\ arg \in SelInputs /\ result = Unused

Select ==
    /\ arg.fn = "find"
    /\ result = Unused
    /\ result' = [fn |-> "find",
                  out |-> FindOutcome(arg.cords[1], arg.cords[2],
                                      arg.cords[3], arg.cords[4], arg.env)]
    /\ UNCHANGED <<startlt, startln, endlt, endln, pari, reqs, running, resp,
                   trace, lastCords, cordsEver, okRisk, everOk, arg>>

SelNext == Select

SelSpec == SelInit /\ [][SelNext]_vars

Selected == result.fn = "find" /\ result.out.status = 200

IsMinimal(analysis, w) ==
    \A k \in 1..Len(analysis) : analysis[w].average_risk <= analysis[k].average_risk

FirstMinimal(analysis) ==
    CHOOSE w \in 1..Len(analysis) :
        /\ IsMinimal(analysis, w)
        /\ \A k \in 1..(w - 1) : ~IsMinimal(analysis, k)

\* C3: a successful find returns the decoded, unsampled geometry of the
\* candidate with the lowest index among those whose average risk is the
\* minimum over all candidates.
StableArgMin ==
    Selected =>
        LET w == FirstMinimal(result.out.analysis)
        IN  /\ result.out.geometry = Decode(arg.env.gh.paths[w].points)
            /\ result.out.risk = result.out.analysis[w].average_risk

\* a tie between routes of different geometry, the winner listed first
TieBrokenByIndex ==
    /\ Selected
    /\ LET analysis == result.out.analysis
           w == FirstMinimal(analysis)
       IN  \E k \in (w + 1)..Len(analysis) :
              /\ IsMinimal(analysis, k)
              /\ analysis[k].geometry # analysis[w].geometry

\* ------------------------------------------- the signals as functions
Times == {0, 360, 1080, 1439}

Events ==
    {Event(d, TRUE, v) : d \in {100, 300}, v \in {-10, 5, 20}}
        \cup {Event(d, FALSE, 0) : d \in {100, 300}}

Counts == {-5, 0, 25, 50, 1000}

CountPayloads ==
    {[ok |-> TRUE, hasCount |-> TRUE, count |-> c] : c \in Counts}
        \cup {[ok |-> TRUE, hasCount |-> FALSE, count |-> 0],
              [ok |-> FALSE, hasCount |-> FALSE, count |-> 0]}

SigInputs ==
    {[fn |-> "incident", payload |-> Incidents(es)] :
        es \in UNION {[1..n -> Events] : n \in 0..MaxEvents}}
    \cup {[fn |-> "incident", payload |-> IncidentDown]}
    \cup {[fn |-> "weather", payload |-> Weather(wind, code, TRUE), now |-> 720] :
            wind \in {-5, 40, 41, 500}, code \in {0, 61, 95, 99}}
    \cup {[fn |-> "weather", payload |-> WeatherDown, now |-> 720]}
    \cup {[fn |-> "road", payload |-> c] : c \in CountPayloads}
    \cup {[fn |-> "poi", payload |-> c] : c \in CountPayloads}
    \cup {[fn |-> "night", now |-> now,
           daily |-> [ok |-> ok, sunrise |-> sunrise, sunset |-> sunset]] :
            now \in Times, sunrise \in Times, sunset \in Times, ok \in BOOLEAN}

SigInit == ServerAtRest /\ arg \in SigInputs /\ result = Unused

Scored(fn, score) ==
    /\ arg.fn = fn
    /\ result = Unused
    /\ result' = [fn |-> fn, score |-> score]
    /\ UNCHANGED <<startlt, startln, endlt, endln, pari, reqs, running, resp,
                   trace, lastCords, cordsEver, okRisk, everOk, arg>>

ScoreIncident == Scored("incident", get_incident_density(arg.payload))

ScoreWeather == Scored("weather", get_weather_severity(arg.payload, arg.now).score)

ScoreRoad == Scored("road", get_road_isolation(arg.payload))

ScorePoi == Scored("poi", get_poi_inverse(arg.payload))

ScoreNight == Scored("night", get_night_factor(arg.daily, arg.now))

SigNext == ScoreIncident \/ ScoreWeather \/ ScoreRoad \/ ScorePoi \/ ScoreNight

SigSpec == SigInit /\ [][SigNext]_vars

\* C7: every score a signal source returns is in [0, 1], for every payload:
\* missing fields, extreme and negative severity, counts and wind speed.
SignalScoresInUnitRange ==
    result.fn # "none" => (0 <= result.score /\ result.score <= SCALE)

====
